---------------------------- MODULE Spec2Model ----------------------------
(***************************************************************************)
(* Model of multical/optimization/calibration.py: the Calibration state,   *)
(* its parameter codec (params / with_params), the validity and inlier     *)
(* engine (valid, inliers, reject_outliers, reject_outliers_quantile),     *)
(* the sparsity builder (sparsity_matrix), enable / copy / __init__ and    *)
(* the outlier-rejection loop (adjust_outliers over bundle_adjust).        *)
(*                                                                         *)
(* Observation entries are 0-based index tuples <<camera, rig_frame,       *)
(* board, point>> as in the numpy tables; TLA+ sequences are 1-based, so   *)
(* entity i of a list is element i + 1.  Reprojection errors are small     *)
(* naturals, thresholds and scales are exact rationals [n, d] (or NaN).    *)
(***************************************************************************)
EXTENDS Integers, Sequences, FiniteSets, TLC

VARIABLES
  self,             \* the current Calibration object (None before construction)
  error,            \* reprojection error of each entry under self's parameters
  op,               \* the operation that produced the current state
  outcome,          \* "ok", or the exception the last operation ended in
  pc,               \* position of adjust_outliers: "idle", "loop", "returned", "raised"
  num_adjustments,  \* adjust_outliers argument
  auto_scale,       \* adjust_outliers argument (None or a select_threshold closure)
  outliers,         \* adjust_outliers argument (None or a select_threshold closure)
  i,                \* loop variable of adjust_outliers
  f_scale,          \* robust-loss scale handed to the last bundle_adjust
  solves,           \* number of bundle_adjust calls made by the current adjust_outliers
  inlier_percent,   \* the inlier percentage the last reject_outliers logged
  readmitted        \* entries the last rejection took back in after an earlier rejection

vars == <<self, error, op, outcome, pc, num_adjustments, auto_scale, outliers,
          i, f_scale, solves, inlier_percent, readmitted>>

-----------------------------------------------------------------------------
(* Bounds of the model *)

\* largest number of observation entries (cameras * rig_frames * boards * points)
MaxEntries == 2

\* largest reprojection error of an entry (errors are 0 .. MaxErr)
MaxErr == 1

\* largest num_adjustments handed to adjust_outliers
MaxAdjust == 2

\* longest entity list / pose set handed to the constructor
MaxLen == 2

\* largest number of invalid items (camera poses, rig frames, board poses,
\* undetected entries) of an initial state
MaxInvalid == 1

\* Python's None; values that may be None are records, so that they compare
None == [none |-> TRUE]

\* the float nan
NaN == [nan |-> TRUE]

\* an exception raised instead of a result
Raised(name) == [exception |-> name]

IsRaised(x) == "exception" \in DOMAIN x

\* x is a Calibration object
IsObject(x) == "cameras" \in DOMAIN x

-----------------------------------------------------------------------------
(* Small helpers *)

Min(a, b) == IF a < b THEN a ELSE b

Range(s) == {s[j] : j \in 1..Len(s)}

RECURSIVE Concat(_)
\* concatenation of a sequence of sequences (ravel of a list of rows)
Concat(ss) == IF ss = <<>> THEN <<>> ELSE Head(ss) \o Concat(Tail(ss))

\* rows j of a flat vector reshaped to (-1, w)
Reshape(v, w) == [j \in 1..(Len(v) \div w) |-> SubSeq(v, (j - 1) * w + 1, j * w)]

\* a rational n / d
Rat(n, d) == [n |-> n, d |-> d]

\* error < threshold in numpy: false against NaN
LessThan(e, thr) == IF thr = NaN THEN FALSE ELSE e * thr.d < thr.n

-----------------------------------------------------------------------------
(* Observation table, pose sets and collaborators *)

\* [cameras, rig_poses, boards, points] prefixes of the point tables considered
Shapes == {sh \in (1..MaxEntries) \X (1..MaxEntries) \X (1..MaxEntries) \X (1..MaxEntries) :
             sh[1] * sh[2] * sh[3] * sh[4] <= MaxEntries}

\* the index tuples of a table with prefix sh
Entries(sh) == (0..(sh[1] - 1)) \X (0..(sh[2] - 1)) \X (0..(sh[3] - 1)) \X (0..(sh[4] - 1))

\* number of residual coordinates of an observation (x, y)
Coords == 2

\* length of the rotation + translation encoding of one pose
PoseParams == 6

\* a rigid transform: rotation by r quarter turns about z, translation t along x
Pose(r, t) == [r |-> r, t |-> t]

IdentityPose == Pose(0, 0)

\* rtvec.from_matrix of one pose: rotation vector (0, 0, angle) with the angle
\* in (-2, 2] quarter turns, then the translation
from_matrix(m) == <<0, 0, IF m.r = 3 THEN -1 ELSE m.r, m.t, 0, 0>>

\* rtvec.to_matrix of one 6-vector: the rotation of the angle modulo a full turn
to_matrix(v) == Pose(v[3] % 4, v[4])

\* a camera with its intrinsic parameter vector
Camera(p) == [param_vec |-> <<p>>]

\* camera.with_param_vec
camera_with_param_vec(camera, v) == [camera EXCEPT !.param_vec = v]

\* a board of n points with all adjustable point coordinates equal to p
Board(n, p) == [param_vec |-> [j \in 1..(3 * n) |-> p]]

\* board.with_param_vec
board_with_param_vec(board, v) == [board EXCEPT !.param_vec = v]

\* a static-frames motion model: one pose per rig frame and the frames' validity
Motion(poses, valid_frames) == [poses |-> poses, valid_frames |-> valid_frames]

\* motion.param_vec
motion_param_vec(motion) == Concat([j \in 1..Len(motion.poses) |-> from_matrix(motion.poses[j])])

\* motion.with_param_vec
motion_with_param_vec(motion, v) ==
  [motion EXCEPT !.poses = [j \in 1..Len(Reshape(v, PoseParams)) |-> to_matrix(Reshape(v, PoseParams)[j])]]

\* the names of the optimization flags
FlagNames == {"intrinsics", "board", "rolling"}

\* default_optimize
default_optimize == [intrinsics |-> FALSE, board |-> FALSE, rolling |-> FALSE]

-----------------------------------------------------------------------------
(* class Calibration *)

Attrs == {"cameras", "boards", "point_table", "camera_poses", "board_poses",
          "motion", "inlier_mask", "optimize"}

\* Calibration.size
size(s) == [cameras |-> s.point_table.prefix[1], rig_poses |-> s.point_table.prefix[2],
            boards |-> s.point_table.prefix[3], points |-> s.point_table.prefix[4]]

\* the assertions of Calibration.__init__
InitAsserts(d) ==
  /\ Len(d.cameras) = size(d).cameras
  /\ Len(d.camera_poses.poses) = size(d).cameras
  /\ Len(d.board_poses.poses) = size(d).boards

\* Calibration.__init__: the new object, or the AssertionError it raises
Calibration(d) == IF InitAsserts(d) THEN d ELSE Raised("AssertionError")

\* Calibration.__getstate__
getstate(s) == [a \in Attrs |-> s[a]]

\* Calibration.copy
copy(s, k) == Calibration([a \in Attrs |-> IF a \in DOMAIN k THEN k[a] ELSE getstate(s)[a]])

\* Calibration.valid
valid(s) ==
  {e \in Entries(s.point_table.prefix) :
     /\ s.camera_poses.valid[e[1] + 1]
     /\ s.motion.valid_frames[e[2] + 1]
     /\ s.board_poses.valid[e[3] + 1]
     /\ e \in s.point_table.valid}

\* choose(a, b) of structs: the first argument that is not None
choose(a, b) == IF a # None THEN a ELSE b

\* a boolean tensor over the entries, as the set of its true entries
Mask(m) == [mask |-> m]

\* Calibration.inliers
inliers(s) == choose(s.inlier_mask, Mask(valid(s))).mask

\* enable without the assertion on the option names
enable_without_assert(s, flags) ==
  copy(s, [optimize |-> [k \in DOMAIN s.optimize \cup DOMAIN flags |->
                           IF k \in DOMAIN flags THEN flags[k] ELSE s.optimize[k]]])

\* Calibration.enable: the new object, or the AssertionError of an unknown option
enable(s, flags) ==
  IF \E k \in DOMAIN flags : k \notin DOMAIN s.optimize
  THEN Raised("AssertionError")
  ELSE copy(s, [optimize |-> [k \in DOMAIN s.optimize \cup DOMAIN flags |->
                                 IF k \in DOMAIN flags THEN flags[k] ELSE s.optimize[k]]])

-----------------------------------------------------------------------------
(* Reprojection errors, quantiles and outlier rejection *)

\* tables.reprojection_error(self.reprojected, self.point_table): the error of
\* every entry (0 where it is not valid) and the recomputed validity
tables_reprojection_error(s, err) ==
  [errors |-> [e \in Entries(s.point_table.prefix) |-> IF e \in valid(s) THEN err[e] ELSE 0],
   valid  |-> valid(s)]

\* Calibration.reprojection_error: the errors of the valid entries only
reprojection_error(s, err) == [e \in valid(s) |-> err[e]]

\* the k-th smallest value (k from 0) of the array a
Kth(a, k) ==
  CHOOSE v \in 0..MaxErr :
    /\ Cardinality({e \in DOMAIN a : a[e] < v}) <= k
    /\ k < Cardinality({e \in DOMAIN a : a[e] <= v})

\* np.quantile(a, q) of a non-empty array, q = q[1] / q[2], by linear
\* interpolation between the two nearest order statistics
quantile(a, q) ==
  LET n   == Cardinality(DOMAIN a)
      pos == q[1] * (n - 1)
      lo  == pos \div q[2]
      rem == pos % q[2]
      hi  == Min(lo + 1, n - 1)
  IN  Rat(Kth(a, lo) * q[2] + rem * (Kth(a, hi) - Kth(a, lo)), q[2])

\* np.quantile(a, q): of an empty array numpy returns nan (with a warning) or
\* raises IndexError, depending on its version
quantile_outcomes(a, q) ==
  IF DOMAIN a = {} THEN {NaN, Raised("IndexError")} ELSE {quantile(a, q)}

\* x * factor for a float x and factor = factor[1] / factor[2]
times(x, factor) ==
  IF x = NaN THEN NaN ELSE Rat(x.n * factor[1], x.d * factor[2])

\* select_threshold(quantile, factor): the closure f
select_threshold(q, factor) == [quantile |-> q, factor |-> factor]

\* f(reprojection_error) of a select_threshold closure: its possible results
apply_threshold(f, a) ==
  {IF IsRaised(x) THEN x ELSE times(x, f.factor) : x \in quantile_outcomes(a, f.quantile)}

\* the inlier percentage reject_outliers logs: numpy's 0 / 0 is nan, no exception
inlier_percent_of(ninliers, nvalid) ==
  IF nvalid = 0 THEN NaN ELSE Rat(100 * ninliers, nvalid)

\* reject_outliers without the "& valid" of its inlier tensor
rejected_inliers_without_valid(s, err, threshold) ==
  LET t == tables_reprojection_error(s, err)
  IN  {e \in Entries(s.point_table.prefix) : LessThan(t.errors[e], threshold)}

\* reject_outliers that only ever removes entries from the current inliers
rejected_inliers_cumulative(s, err, threshold) ==
  LET t == tables_reprojection_error(s, err)
  IN  {e \in Entries(s.point_table.prefix) :
         LessThan(t.errors[e], threshold) /\ e \in t.valid /\ e \in inliers(s)}

\* the inlier tensor of Calibration.reject_outliers
rejected_inliers(s, err, threshold) ==
  LET t == tables_reprojection_error(s, err)
  IN  {e \in Entries(s.point_table.prefix) : LessThan(t.errors[e], threshold) /\ e \in t.valid}

\* Calibration.reject_outliers: the new state and the logged percentage
reject_outliers(s, err, threshold) ==
  LET t == tables_reprojection_error(s, err)
      inl == rejected_inliers(s, err, threshold)
  IN  [state |-> copy(s, [inlier_mask |-> Mask(inl)]),
       inlier_percent |-> inlier_percent_of(Cardinality(inl), Cardinality(t.valid))]

\* Calibration.reject_outliers_quantile: its possible results
reject_outliers_quantile(s, err, q, factor) ==
  {IF IsRaised(x) THEN x ELSE reject_outliers(s, err, times(x, factor)) :
     x \in quantile_outcomes(reprojection_error(s, err), q)}

-----------------------------------------------------------------------------
(* Parameter codec *)

\* get_pose_params: rtvec.from_matrix(poses.poses).ravel()
get_pose_params(poses) == Concat([j \in 1..Len(poses.poses) |-> from_matrix(poses.poses[j])])

\* Calibration.params
params(s) ==
  [camera_pose |-> get_pose_params(s.camera_poses),
   board_pose  |-> get_pose_params(s.board_poses),
   motion      |-> motion_param_vec(s.motion),
   camera      |-> IF s.optimize.intrinsics
                   THEN [j \in 1..Len(s.cameras) |-> s.cameras[j].param_vec] ELSE <<>>,
   board       |-> IF s.optimize.board
                   THEN [j \in 1..Len(s.boards) |-> s.boards[j].param_vec] ELSE <<>>]

\* update_pose: rtvec.to_matrix(pose_params.reshape(-1, 6)) put into the pose set
update_pose(pose_estimates, pose_params) ==
  [pose_estimates EXCEPT !.poses =
     [j \in 1..Len(Reshape(pose_params, PoseParams)) |-> to_matrix(Reshape(pose_params, PoseParams)[j])]]

\* with_params that builds the new object without the receiver's inlier mask
with_params_dropping_mask(s, ps) ==
  LET camera_poses == update_pose(s.camera_poses, ps.camera_pose)
      board_poses  == update_pose(s.board_poses, ps.board_pose)
      motion       == motion_with_param_vec(s.motion, ps.motion)
      cameras      == IF s.optimize.intrinsics
                      THEN [j \in 1..Min(Len(ps.camera), Len(s.cameras)) |->
                              camera_with_param_vec(s.cameras[j], ps.camera[j])]
                      ELSE s.cameras
      boards       == IF s.optimize.board
                      THEN [j \in 1..Min(Len(s.boards), Len(ps.board)) |->
                              board_with_param_vec(s.boards[j], ps.board[j])]
                      ELSE s.boards
  IN  copy(s, [cameras |-> cameras, camera_poses |-> camera_poses,
               board_poses |-> board_poses, boards |-> boards, motion |-> motion,
               inlier_mask |-> None])

\* with_params with the two pose blocks taken for each other
with_params_swapped_pose_blocks(s, ps) ==
  LET camera_poses == update_pose(s.camera_poses, ps.board_pose)
      board_poses  == update_pose(s.board_poses, ps.camera_pose)
      motion       == motion_with_param_vec(s.motion, ps.motion)
      cameras      == IF s.optimize.intrinsics
                      THEN [j \in 1..Min(Len(ps.camera), Len(s.cameras)) |->
                              camera_with_param_vec(s.cameras[j], ps.camera[j])]
                      ELSE s.cameras
      boards       == IF s.optimize.board
                      THEN [j \in 1..Min(Len(s.boards), Len(ps.board)) |->
                              board_with_param_vec(s.boards[j], ps.board[j])]
                      ELSE s.boards
  IN  copy(s, [cameras |-> cameras, camera_poses |-> camera_poses,
               board_poses |-> board_poses, boards |-> boards, motion |-> motion])

\* Calibration.with_params
with_params(s, ps) ==
  LET camera_poses == update_pose(s.camera_poses, ps.camera_pose)
      board_poses  == update_pose(s.board_poses, ps.board_pose)
      motion       == motion_with_param_vec(s.motion, ps.motion)
      cameras      == IF s.optimize.intrinsics
                      THEN [j \in 1..Min(Len(ps.camera), Len(s.cameras)) |->
                              camera_with_param_vec(s.cameras[j], ps.camera[j])]
                      ELSE s.cameras
      boards       == IF s.optimize.board
                      THEN [j \in 1..Min(Len(s.boards), Len(ps.board)) |->
                              board_with_param_vec(s.boards[j], ps.board[j])]
                      ELSE s.boards
  IN  copy(s, [cameras |-> cameras, camera_poses |-> camera_poses,
               board_poses |-> board_poses, boards |-> boards, motion |-> motion])

\* Parameters.param_vec: the blocks of params joined in their order
param_vec(s) ==
  params(s).camera_pose \o params(s).board_pose \o params(s).motion
    \o Concat(params(s).camera) \o Concat(params(s).board)

RECURSIVE Split(_, _)
\* a flat vector cut into consecutive blocks of the lengths of the template's blocks
Split(v, template) ==
  IF template = <<>> THEN <<>>
  ELSE <<SubSeq(v, 1, Len(Head(template)))>>
         \o Split(SubSeq(v, Len(Head(template)) + 1, Len(v)), Tail(template))

\* Parameters.with_param_vec: the vector cut into the blocks of params, then with_params
with_param_vec(s, v) ==
  LET p   == params(s)
      n1  == Len(p.camera_pose)
      n2  == n1 + Len(p.board_pose)
      n3  == n2 + Len(p.motion)
      n4  == n3 + Len(Concat(p.camera))
  IN  with_params(s, [camera_pose |-> SubSeq(v, 1, n1),
                      board_pose  |-> SubSeq(v, n1 + 1, n2),
                      motion      |-> SubSeq(v, n2 + 1, n3),
                      camera      |-> Split(SubSeq(v, n3 + 1, n4), p.camera),
                      board       |-> Split(SubSeq(v, n4 + 1, Len(v)), p.board)])

-----------------------------------------------------------------------------
(* Sparsity builder *)

\* IndexMapper.indices: the position of coordinate k of entry e in the
\* flattened [cameras, rig_poses, boards, points, 2] tensor
FlatIndex(sh, e, k) ==
  ((((e[1] * sh[2]) + e[2]) * sh[3] + e[3]) * sh[4] + e[4]) * Coords + k

\* IndexMapper.mask_coords, flattened: the positions of the masked coordinates
mask_coords(sh, mask) == {FlatIndex(sh, e, k) : e \in mask, k \in 0..(Coords - 1)}

\* IndexMapper.point_indexes(i, axis): the masked positions whose index along
\* axis (0 camera, 1 rig frame, 2 board, 3 point) is i
point_indexes(sh, mask, idx, axis) ==
  {FlatIndex(sh, e, k) : e \in {x \in mask : x[axis + 1] = idx}, k \in 0..(Coords - 1)}

\* IndexMapper.pose_mapping(poses, axis): 6 parameters per pose
pose_mapping(sh, mask, poses, axis) ==
  [j \in 1..Len(poses) |-> [n |-> PoseParams, rows |-> point_indexes(sh, mask, j - 1, axis)]]

\* IndexMapper.param_indexes(axis, params): p.size parameters for the i-th p
param_indexes(sh, mask, axis, ps) ==
  [j \in 1..Len(ps) |-> [n |-> Len(ps[j]), rows |-> point_indexes(sh, mask, j - 1, axis)]]

\* motion.sparsity(mapper) of the static-frames model: one pose per rig frame
motion_sparsity(sh, mask, motion) == pose_mapping(sh, mask, motion.poses, 1)

RECURSIVE Total(_)
\* the number of parameters of a list of (count, rows) pairs
Total(ms) == IF ms = <<>> THEN 0 ELSE Head(ms).n + Total(Tail(ms))

\* parameters.build_sparse: consecutive columns for each pair, set on the
\* pair's rows; then only the masked rows are kept, in their order
build_sparse(ms, sh, mask) ==
  LET kept == mask_coords(sh, mask)
      rank(x) == Cardinality({y \in kept : y <= x})
      first(j) == Total(SubSeq(ms, 1, j - 1))
  IN  [nrows |-> Cardinality(kept),
       ncols |-> Total(ms),
       row_index |-> [r \in 1..Cardinality(kept) |-> CHOOSE x \in kept : rank(x) = r],
       ones  |-> UNION {{<<rank(x), first(j) + c>> : x \in ms[j].rows \cap kept, c \in 1..ms[j].n} :
                          j \in 1..Len(ms)}]

\* sparsity_matrix with the board poses mapped along the rig-frame axis
sparsity_matrix_board_axis_slip(s) ==
  LET sh   == s.point_table.prefix
      mask == inliers(s)
      param_mappings ==
        pose_mapping(sh, mask, s.camera_poses.poses, 0)
          \o pose_mapping(sh, mask, s.board_poses.poses, 1)
          \o motion_sparsity(sh, mask, s.motion)
          \o param_indexes(sh, mask, 0, params(s).camera)
          \o Concat([b \in 1..Len(params(s).board) |->
                       param_indexes(sh, mask, 3, Reshape(params(s).board[b], 3))])
  IN  build_sparse(param_mappings, sh, mask)

\* Calibration.sparsity_matrix
sparsity_matrix(s) ==
  LET sh   == s.point_table.prefix
      mask == inliers(s)
      param_mappings ==
        pose_mapping(sh, mask, s.camera_poses.poses, 0)
          \o pose_mapping(sh, mask, s.board_poses.poses, 2)
          \o motion_sparsity(sh, mask, s.motion)
          \o param_indexes(sh, mask, 0, params(s).camera)
          \o Concat([b \in 1..Len(params(s).board) |->
                       param_indexes(sh, mask, 3, Reshape(params(s).board[b], 3))])
  IN  build_sparse(param_mappings, sh, mask)

-----------------------------------------------------------------------------
(* Initial states: calibrations as the constructor accepts them *)

\* the items of a table with prefix sh that can be invalid
Items(sh) ==
  ({"camera"} \X (1..sh[1])) \cup ({"frame"} \X (1..sh[2]))
    \cup ({"board"} \X (1..sh[3])) \cup ({"entry"} \X Entries(sh))

\* the sets of at most MaxInvalid invalid items
InvalidSets(sh) == {inv \in SUBSET Items(sh) : Cardinality(inv) <= MaxInvalid}

\* a calibration over a table with prefix sh whose invalid items are inv, with
\* identity poses, and the given inlier mask and flags
Calib(sh, inv, mask, flags) ==
  [cameras      |-> [j \in 1..sh[1] |-> Camera(0)],
   boards       |-> [j \in 1..sh[3] |-> Board(sh[4], 0)],
   point_table  |-> [prefix |-> sh, valid |-> {e \in Entries(sh) : <<"entry", e>> \notin inv}],
   camera_poses |-> [poses |-> [j \in 1..sh[1] |-> IdentityPose],
                     valid |-> [j \in 1..sh[1] |-> <<"camera", j>> \notin inv]],
   board_poses  |-> [poses |-> [j \in 1..sh[3] |-> IdentityPose],
                     valid |-> [j \in 1..sh[3] |-> <<"board", j>> \notin inv]],
   motion       |-> Motion([j \in 1..sh[2] |-> IdentityPose],
                           [j \in 1..sh[2] |-> <<"frame", j>> \notin inv]),
   inlier_mask  |-> mask,
   optimize     |-> flags]

\* the error tensors of a state: any error on a valid entry, 0 elsewhere
ErrorTensors(s) ==
  {err \in [Entries(s.point_table.prefix) -> 0..MaxErr] :
     \A e \in Entries(s.point_table.prefix) : e \notin valid(s) => err[e] = 0}

NoOp == [name |-> "init"]

\* the variables of adjust_outliers before any call
LoopIdle ==
  /\ pc = "idle"
  /\ num_adjustments = 0
  /\ auto_scale = None
  /\ outliers = None
  /\ i = 0
  /\ f_scale = None
  /\ solves = 0
  /\ readmitted = {}

LoopUnchanged == UNCHANGED <<pc, num_adjustments, auto_scale, outliers, i, f_scale, solves, readmitted>>

\* the receiver of a method call is a constructed object and no loop is running
Callable == pc = "idle" /\ IsObject(self)

\* a method returned x: the new state, or the exception it raised
Returns(x) ==
  IF IsRaised(x)
  THEN self' = self /\ outcome' = x.exception
  ELSE self' = x /\ outcome' = "ok"

-----------------------------------------------------------------------------
(* The inlier engine: rejection by threshold and by quantile *)

\* thresholds handed to reject_outliers
Thresholds == {Rat(t, 1) : t \in 0..(MaxErr + 1)}

\* (quantile, factor) arguments: 1.0 and 1.0, the default 0.95 and 1.0, 0.5 and 2.0
QuantileArgs == {<< <<1, 1>>, <<1, 1>> >>, << <<19, 20>>, <<1, 1>> >>, << <<1, 2>>, <<2, 1>> >>}

InitInlier ==
  /\ \E sh \in Shapes : \E inv \in InvalidSets(sh) :
       self = Calib(sh, inv, None, default_optimize)
  /\ error \in ErrorTensors(self)
  /\ op = NoOp
  /\ outcome = "ok"
  /\ inlier_percent = None
  /\ LoopIdle

RejectOutliers ==
  /\ Callable
  /\ \E threshold \in Thresholds :
       /\ Returns(reject_outliers(self, error, threshold).state)
       /\ inlier_percent' = reject_outliers(self, error, threshold).inlier_percent
       /\ op' = [name |-> "reject_outliers", threshold |-> threshold]
  /\ UNCHANGED error
  /\ LoopUnchanged

RejectOutliersQuantile ==
  /\ Callable
  /\ \E a \in QuantileArgs :
       /\ \E r \in reject_outliers_quantile(self, error, a[1], a[2]) :
            IF IsRaised(r)
            THEN Returns(r) /\ inlier_percent' = None
            ELSE Returns(r.state) /\ inlier_percent' = r.inlier_percent
       /\ op' = [name |-> "reject_outliers_quantile", quantile |-> a[1], factor |-> a[2]]
  /\ UNCHANGED error
  /\ LoopUnchanged

NextInlier == RejectOutliers \/ RejectOutliersQuantile

Spec == InitInlier /\ [][NextInlier]_vars

-----------------------------------------------------------------------------
(* Optimization flags and the sparsity pattern *)

\* flag names handed to enable: the three options and an unknown one
FlagInputs == {"intrinsics", "board", "rolling", "motion"}

\* the keyword arguments handed to enable: at most two flags
EnableArgs == UNION {[D -> BOOLEAN] : D \in {X \in SUBSET FlagInputs : Cardinality(X) <= 2}}

InitFlags ==
  /\ \E sh \in Shapes :
       \/ \E inv \in InvalidSets(sh) : self = Calib(sh, inv, None, default_optimize)
       \/ \E m \in SUBSET Entries(sh) : self = Calib(sh, {}, Mask(m), default_optimize)
  /\ error = [e \in Entries(self.point_table.prefix) |-> 0]
  /\ op = NoOp
  /\ outcome = "ok"
  /\ inlier_percent = None
  /\ LoopIdle

Enable ==
  /\ Callable
  /\ \E flags \in EnableArgs :
       /\ Returns(enable(self, flags))
       /\ op' = [name |-> "enable", flags |-> flags]
  /\ UNCHANGED <<error, inlier_percent>>
  /\ LoopUnchanged

NextFlags == Enable

SpecFlags == InitFlags /\ [][NextFlags]_vars

-----------------------------------------------------------------------------
(* Construction and copy *)

\* a pose set of n identity poses, all valid
PoseSet(n) == [poses |-> [j \in 1..n |-> IdentityPose], valid |-> [j \in 1..n |-> TRUE]]

\* constructor arguments: a fully detected table with prefix sh, and entity
\* lists and pose sets of the given lengths
CtorArgs(sh, ncameras, nboards, ncamera_poses, nboard_poses) ==
  [cameras      |-> [j \in 1..ncameras |-> Camera(0)],
   boards       |-> [j \in 1..nboards |-> Board(sh[4], 0)],
   point_table  |-> [prefix |-> sh, valid |-> Entries(sh)],
   camera_poses |-> PoseSet(ncamera_poses),
   board_poses  |-> PoseSet(nboard_poses),
   motion       |-> Motion(PoseSet(sh[2]).poses, PoseSet(sh[2]).valid),
   inlier_mask  |-> None,
   optimize     |-> default_optimize]

\* keyword arguments handed to copy: one attribute replaced
CopyArgs ==
  {[cameras |-> [j \in 1..n |-> Camera(0)]] : n \in 1..MaxLen}
    \cup {[boards |-> [j \in 1..n |-> Board(1, 0)]] : n \in 1..MaxLen}
    \cup {[camera_poses |-> PoseSet(n)] : n \in 1..MaxLen}
    \cup {[board_poses |-> PoseSet(n)] : n \in 1..MaxLen}
    \cup {[optimize |-> [default_optimize EXCEPT !.board = TRUE]]}

InitCtor ==
  /\ self = None
  /\ error = <<>>
  /\ op = NoOp
  /\ outcome = "ok"
  /\ inlier_percent = None
  /\ LoopIdle

Construct ==
  /\ pc = "idle" /\ self = None
  /\ \E sh \in Shapes : \E nc \in 1..MaxLen, nb \in 1..MaxLen, ncp \in 1..MaxLen, nbp \in 1..MaxLen :
       /\ IF IsRaised(Calibration(CtorArgs(sh, nc, nb, ncp, nbp)))
          THEN /\ Returns(Calibration(CtorArgs(sh, nc, nb, ncp, nbp)))
               /\ error' = error
          ELSE /\ Returns(Calibration(CtorArgs(sh, nc, nb, ncp, nbp)))
               /\ error' = [e \in Entries(sh) |-> 0]
       /\ op' = [name |-> "__init__", prefix |-> sh, lengths |-> <<nc, nb, ncp, nbp>>]
  /\ UNCHANGED inlier_percent
  /\ LoopUnchanged

Copy ==
  /\ Callable
  /\ \E k \in CopyArgs :
       /\ Returns(copy(self, k))
       /\ op' = [name |-> "copy", k |-> DOMAIN k]
  /\ UNCHANGED <<error, inlier_percent>>
  /\ LoopUnchanged

NextCtor == Construct \/ Copy

SpecCtor == InitCtor /\ [][NextCtor]_vars

-----------------------------------------------------------------------------
(* Encode and decode *)

\* the poses the codec is exercised on: the identity and a rotation by three
\* quarter turns (rotation vector angle -1) with a translation
PoseValues == {IdentityPose, Pose(3, 1)}

\* v with 1 added to every component
Shift(v) == [j \in 1..Len(v) |-> v[j] + 1]

\* a parameter struct for the state other than its own: every block shifted,
\* the camera and board blocks present whatever the flags
ShiftedParams(s) ==
  [camera_pose |-> Shift(get_pose_params(s.camera_poses)),
   board_pose  |-> Shift(get_pose_params(s.board_poses)),
   motion      |-> Shift(motion_param_vec(s.motion)),
   camera      |-> [j \in 1..Len(s.cameras) |-> Shift(s.cameras[j].param_vec)],
   board       |-> [j \in 1..Len(s.boards) |-> Shift(s.boards[j].param_vec)]]

InitCodec ==
  /\ \E sh \in Shapes :
     \E cp \in [1..sh[1] -> PoseValues], bp \in [1..sh[3] -> PoseValues], mp \in [1..sh[2] -> PoseValues] :
     \E cam \in [1..sh[1] -> 0..1], brd \in [1..sh[3] -> 0..1] :
     \E flags \in [FlagNames -> BOOLEAN], mask \in {None, Mask(Entries(sh))} :
       self = [cameras      |-> [j \in 1..sh[1] |-> Camera(cam[j])],
               boards       |-> [j \in 1..sh[3] |-> Board(sh[4], brd[j])],
               point_table  |-> [prefix |-> sh, valid |-> Entries(sh)],
               camera_poses |-> [PoseSet(sh[1]) EXCEPT !.poses = cp],
               board_poses  |-> [PoseSet(sh[3]) EXCEPT !.poses = bp],
               motion       |-> Motion(mp, PoseSet(sh[2]).valid),
               inlier_mask  |-> mask,
               optimize     |-> flags]
  /\ error = [e \in Entries(self.point_table.prefix) |-> 0]
  /\ op = NoOp
  /\ outcome = "ok"
  /\ inlier_percent = None
  /\ LoopIdle

\* with_params(self.params): decode of the state's own encoding
RoundTrip ==
  /\ Callable
  /\ Returns(with_params(self, params(self)))
  /\ op' = [name |-> "round_trip"]
  /\ UNCHANGED <<error, inlier_percent>>
  /\ LoopUnchanged

\* with_params of another parameter struct
WithParams ==
  /\ Callable
  /\ op.name = "init"
  /\ Returns(with_params(self, ShiftedParams(self)))
  /\ op' = [name |-> "with_params", params |-> ShiftedParams(self)]
  /\ UNCHANGED <<error, inlier_percent>>
  /\ LoopUnchanged

NextCodec == RoundTrip \/ WithParams

SpecCodec == InitCodec /\ [][NextCodec]_vars

-----------------------------------------------------------------------------
(* The outlier-rejection loop *)

\* Calibration.reprojection_inliers: the errors of the valid inlier entries
reprojection_inliers(s, err) == [e \in inliers(s) \cap valid(s) |-> err[e]]

\* error_stats(errors): np.quantile of an empty array returns nan or raises
\* IndexError, depending on the numpy version; the statistics are only logged
error_stats(errors) == IF DOMAIN errors = {} THEN {"ok", "IndexError"} ELSE {"ok"}

\* Calibration.report: "ok", or the exception of one of its two error_stats
report(s, err) == error_stats(reprojection_error(s, err)) \cup error_stats(reprojection_inliers(s, err))

\* the float x has truth value False (0.0); nan is true
IsFalsy(x) == x # NaN /\ x.n = 0

\* apply_none(auto_scale, self.reprojection_error) or 1.0: the possible scales,
\* or the exception of the auto-scale function
scale_outcomes(auto, a) ==
  IF auto = None THEN {Rat(1, 1)}
  ELSE {IF IsRaised(x) THEN x ELSE IF IsFalsy(x) THEN Rat(1, 1) ELSE x : x \in apply_threshold(auto, a)}

\* optimize.least_squares: the refined vector. The solver either returns its
\* starting point or moves the first camera's translation
least_squares(x0) == {x0, [x0 EXCEPT ![4] = 1 - x0[4]]}

\* Calibration.bundle_adjust: with_param_vec of the solver's result
bundle_adjust(s) == {with_param_vec(s, x) : x \in least_squares(param_vec(s))}

\* the auto-scale functions and outlier policies handed to adjust_outliers
AutoScales == {None, select_threshold(<<1, 2>>, <<1, 1>>)}

Policies == {None, select_threshold(<<1, 1>>, <<1, 1>>), select_threshold(<<1, 2>>, <<2, 1>>)}

\* the inlier masks of the initial states of the loop
LoopMasks(s) == {None} \cup {Mask(m) : m \in SUBSET valid(s)}

\* the tables the loop is run on: the loop treats the entries alike, whatever
\* axis tells them apart, so they differ by camera only
LoopShapes == {sh \in Shapes : sh[2] = 1 /\ sh[3] = 1 /\ sh[4] = 1}

\* and an entry is invalid by not being detected
LoopInvalidSets(sh) == {inv \in InvalidSets(sh) : \A x \in inv : x[1] = "entry"}

InitLoop ==
  /\ \E sh \in LoopShapes : \E inv \in LoopInvalidSets(sh) :
       \E s \in {Calib(sh, inv, None, default_optimize)} : \E mask \in LoopMasks(s) :
         self = [s EXCEPT !.inlier_mask = mask]
  /\ error \in ErrorTensors(self)
  /\ op = NoOp
  /\ outcome = "ok"
  /\ inlier_percent = None
  /\ LoopIdle

\* adjust_outliers is called
AdjustOutliers ==
  /\ Callable
  /\ \E k \in 0..MaxAdjust, a \in AutoScales, o \in Policies :
       /\ num_adjustments' = k
       /\ auto_scale' = a
       /\ outliers' = o
  /\ pc' = "loop"
  /\ i' = 0
  /\ solves' = 0
  /\ f_scale' = None
  /\ readmitted' = {}
  /\ op' = [name |-> "adjust_outliers"]
  /\ UNCHANGED <<self, error, outcome, inlier_percent>>

\* the call ends in an exception
Raise(name) ==
  /\ pc' = "raised"
  /\ outcome' = name
  /\ UNCHANGED <<self, error, op, num_adjustments, auto_scale, outliers, i, f_scale,
                 solves, inlier_percent, readmitted>>

\* the rest of an iteration once the scale is fixed: the rejection step of the
\* policy, if any, then bundle_adjust on the resulting state
RejectAndSolve(scale) ==
  \E thr \in (IF outliers = None THEN {None} ELSE apply_threshold(outliers, reprojection_error(self, error))) :
    IF IsRaised(thr)
    THEN Raise(thr.exception)
    ELSE \E rejected \in {IF outliers = None THEN self ELSE reject_outliers(self, error, thr).state} :
         \E adjusted \in bundle_adjust(rejected) :
           /\ self' = adjusted
           /\ error' \in (IF params(adjusted) = params(self) THEN {error} ELSE ErrorTensors(adjusted))
           /\ f_scale' = scale
           /\ inlier_percent' = (IF outliers = None THEN inlier_percent
                                 ELSE reject_outliers(self, error, thr).inlier_percent)
           /\ readmitted' = (IF outliers = None \/ self.inlier_mask = None THEN {}
                             ELSE rejected.inlier_mask.mask \cap (valid(self) \ self.inlier_mask.mask))
           /\ solves' = solves + 1
           /\ i' = i + 1
           /\ UNCHANGED <<op, outcome, pc, num_adjustments, auto_scale, outliers>>

\* one iteration of the for loop of adjust_outliers
Iteration ==
  /\ pc = "loop"
  /\ i < num_adjustments
  /\ \E reported \in report(self, error) :
       IF reported # "ok"
       THEN Raise(reported)
       ELSE \E scale \in scale_outcomes(auto_scale, reprojection_error(self, error)) :
              IF IsRaised(scale) THEN Raise(scale.exception) ELSE RejectAndSolve(scale)

\* the loop is over: the final report, then return self
Return ==
  /\ pc = "loop"
  /\ i = num_adjustments
  /\ \E reported \in report(self, error) :
       IF reported # "ok"
       THEN Raise(reported)
       ELSE /\ pc' = "returned"
            /\ UNCHANGED <<self, error, op, outcome, num_adjustments, auto_scale, outliers, i,
                           f_scale, solves, inlier_percent, readmitted>>

NextLoop == AdjustOutliers \/ Iteration \/ Return

SpecLoop == InitLoop /\ [][NextLoop]_vars

-----------------------------------------------------------------------------
(* Properties of the inlier engine (specification Spec) *)

IsRejection == op.name \in {"reject_outliers", "reject_outliers_quantile"}

\* C2: the inlier mask of a state returned by reject_outliers or
\* reject_outliers_quantile is a subset of that state's validity tensor
\* (camera pose, rig frame and board pose valid, and the entry detected).
InlierMaskWithinValid ==
  (IsRejection /\ outcome = "ok") => self.inlier_mask.mask \subseteq valid(self)

\* C2 witness: a rejection returned a state with inliers while some entry is not valid
InlierMaskWithinValidWitness ==
  /\ IsRejection /\ outcome = "ok"
  /\ self.inlier_mask.mask # {}
  /\ valid(self) # Entries(self.point_table.prefix)

IsQuantileOne ==
  /\ op.name = "reject_outliers_quantile"
  /\ op.quantile = <<1, 1>> /\ op.factor = <<1, 1>>

\* C3: reject_outliers_quantile(quantile=1.0, factor=1.0) returns a state whose
\* inlier mask equals the validity tensor: every valid entry is kept, those
\* attaining the maximum error included.
QuantileOneKeepsEveryValidEntry ==
  (IsQuantileOne /\ outcome = "ok") => self.inlier_mask = Mask(valid(self))

\* C4: with no valid entry, reject_outliers and reject_outliers_quantile end in
\* an error and return no new state; they never complete normally.
EmptyValidSetIsAnError ==
  (IsRejection /\ valid(self) = {}) => outcome # "ok"

-----------------------------------------------------------------------------
(* Properties of enable and of the sparsity pattern (specification SpecFlags) *)

\* C6: enable with a flag name outside {intrinsics, board, rolling} fails and
\* yields no new state; with recognised names only it returns a state whose
\* flags are the receiver's with the named flags set as given, and whose
\* cameras, boards, observation table, pose sets, motion model and inlier mask
\* are the receiver's.
EnableContract ==
  [][op'.name = "enable" =>
       IF \E k \in DOMAIN op'.flags : k \notin FlagNames
       THEN outcome' = "AssertionError" /\ self' = self
       ELSE /\ outcome' = "ok"
            /\ DOMAIN self'.optimize = FlagNames
            /\ \A k \in DOMAIN op'.flags : self'.optimize[k] = op'.flags[k]
            /\ \A k \in FlagNames \ DOMAIN op'.flags : self'.optimize[k] = self.optimize[k]
            /\ \A a \in Attrs \ {"optimize"} : self'[a] = self[a]]_vars

\* C6 witness: enable(intrinsics=True, rolling=False) returned on a state with an inlier mask
EnableContractWitness ==
  /\ op.name = "enable" /\ outcome = "ok"
  /\ op.flags = [k \in {"intrinsics", "rolling"} |-> k = "intrinsics"]
  /\ self.optimize.intrinsics /\ ~self.optimize.board
  /\ self.inlier_mask # None

\* the entity (axis, index) a column of the encoded vector belongs to, from the
\* order of encode: camera poses, board poses, motion, cameras, boards
ColumnOwner(s, j) ==
  LET p  == params(s)
      n1 == Len(p.camera_pose)
      n2 == n1 + Len(p.board_pose)
      n3 == n2 + Len(p.motion)
      n4 == n3 + Len(Concat(p.camera))
  IN  IF j <= n1 THEN <<0, (j - 1) \div PoseParams>>
      ELSE IF j <= n2 THEN <<2, (j - n1 - 1) \div PoseParams>>
      ELSE IF j <= n3 THEN <<1, (j - n2 - 1) \div PoseParams>>
      ELSE IF j <= n4 THEN <<0, (j - n3 - 1) \div Len(p.camera[1])>>
      ELSE <<3, ((j - n4 - 1) % Len(p.board[1])) \div 3>>

\* the entity occurs in at least one inlier entry
Participates(s, owner) == \E e \in inliers(s) : e[owner[1] + 1] = owner[2]

\* C8: the sparsity matrix has a row for each coordinate of each inlier entry
\* and no others, in tensor order, a column for each parameter of the encoded
\* vector, and no all-zero column for a parameter of an enabled group whose
\* entity occurs in an inlier entry.
SparsityCoversParticipants ==
  IsObject(self) =>
    LET m == sparsity_matrix(self)
    IN  /\ m.ncols = Len(param_vec(self))
        /\ m.nrows = Coords * Cardinality(inliers(self))
        /\ Range(m.row_index) = mask_coords(self.point_table.prefix, inliers(self))
        /\ \A r \in 1..(m.nrows - 1) : m.row_index[r] < m.row_index[r + 1]
        /\ \A j \in 1..m.ncols :
             Participates(self, ColumnOwner(self, j)) => \E r \in 1..m.nrows : <<r, j>> \in m.ones

\* C8 witness: intrinsics and board enabled, a mask that keeps one entry and
\* drops another, so that some columns are covered and some are not
SparsityCoversParticipantsWitness ==
  /\ IsObject(self)
  /\ self.optimize.intrinsics /\ self.optimize.board
  /\ self.inlier_mask # None
  /\ inliers(self) # {}
  /\ \E j \in 1..sparsity_matrix(self).ncols :
       ~Participates(self, ColumnOwner(self, j))

-----------------------------------------------------------------------------
(* Properties of construction (specification SpecCtor) *)

\* C5: no Calibration exists whose camera list, camera pose set, board list or
\* board pose set has a length other than the table's camera or board count:
\* construction, directly or through copy, fails on any such mismatch.
ConstructionChecksEveryCount ==
  IsObject(self) =>
    /\ Len(self.cameras) = size(self).cameras
    /\ Len(self.camera_poses.poses) = size(self).cameras
    /\ Len(self.boards) = size(self).boards
    /\ Len(self.board_poses.poses) = size(self).boards

-----------------------------------------------------------------------------
(* Properties of the codec (specification SpecCodec) *)

\* the poses rtvec.to_matrix gives for a flat block of 6-vectors
DecodedPoses(block) ==
  [j \in 1..(Len(block) \div PoseParams) |->
     to_matrix(SubSeq(block, (j - 1) * PoseParams + 1, j * PoseParams))]

\* C7: for every flag configuration decode(encode(state), state) is state; and
\* decode of any parameter struct restores the camera poses, board poses and
\* motion model from their blocks, the cameras / boards of an enabled group
\* from their blocks, carries the cameras / boards of a disabled group over,
\* and leaves the observation table, flags and inlier mask unchanged.
RoundTripLaw ==
  [][/\ op'.name = "round_trip" => (outcome' = "ok" /\ self' = self)
     /\ op'.name = "with_params" =>
          /\ outcome' = "ok"
          /\ self'.camera_poses = [self.camera_poses EXCEPT !.poses = DecodedPoses(op'.params.camera_pose)]
          /\ self'.board_poses = [self.board_poses EXCEPT !.poses = DecodedPoses(op'.params.board_pose)]
          /\ self'.motion = [self.motion EXCEPT !.poses = DecodedPoses(op'.params.motion)]
          /\ IF self.optimize.intrinsics
             THEN /\ Len(self'.cameras) = Len(self.cameras)
                  /\ \A j \in 1..Len(self.cameras) : self'.cameras[j].param_vec = op'.params.camera[j]
             ELSE self'.cameras = self.cameras
          /\ IF self.optimize.board
             THEN /\ Len(self'.boards) = Len(self.boards)
                  /\ \A j \in 1..Len(self.boards) : self'.boards[j].param_vec = op'.params.board[j]
             ELSE self'.boards = self.boards
          /\ self'.point_table = self.point_table
          /\ self'.optimize = self.optimize
          /\ self'.inlier_mask = self.inlier_mask]_vars

\* C7 witness: a round trip returned on a state with intrinsics enabled, board
\* disabled, an inlier mask, and a camera pose whose rotation angle is negative
RoundTripLawWitness ==
  /\ op.name = "round_trip" /\ outcome = "ok"
  /\ self.optimize.intrinsics /\ ~self.optimize.board
  /\ self.inlier_mask # None
  /\ self.camera_poses.poses[1] = Pose(3, 1)
  /\ self.board_poses.poses[1] = IdentityPose

-----------------------------------------------------------------------------
(* Properties of the outlier-rejection loop (specification SpecLoop) *)

\* an iteration of the loop completed in this step
IterationDone == pc = "loop" /\ pc' = "loop"

\* C1: adjust_outliers(num_adjustments=k) calls bundle_adjust once in each
\* iteration and returns only after k iterations, for every k >= 0; with
\* outliers=None the inlier mask is the same at the call, after every
\* iteration and in the returned state.
AdjustOutliersSolvesExactly ==
  [][/\ (pc = "idle" /\ pc' = "loop") => (solves' = 0 /\ self' = self)
     /\ IterationDone => (solves' = solves + 1 /\ solves' <= num_adjustments)
     /\ (pc = "loop" /\ pc' = "returned") => (solves = num_adjustments /\ solves' = solves /\ self' = self)
     /\ (pc = "loop" /\ outliers = None) => self'.inlier_mask = self.inlier_mask]_vars

\* C1 witness: a call with two adjustments and no policy returned after two
\* solves, on a state whose inlier mask leaves a valid entry out
AdjustOutliersSolvesExactlyWitness ==
  /\ pc = "returned"
  /\ outliers = None
  /\ num_adjustments = 2 /\ solves = 2
  /\ self.inlier_mask # None
  /\ self.inlier_mask.mask # valid(self)

\* two floats are equal
SameFloat(a, b) == IF a = NaN \/ b = NaN THEN a = b ELSE a.n * b.d = b.n * a.d

\* C9: in every iteration the scale handed to the solve is the auto-scale
\* function's value on the overall error of the state entering the iteration,
\* for every value the function returns, and 1.0 when no function is configured.
ScaleIsAutoScaleValue ==
  [][IterationDone =>
       IF auto_scale = None
       THEN SameFloat(f_scale', Rat(1, 1))
       ELSE \E x \in apply_threshold(auto_scale, reprojection_error(self, error)) :
              ~IsRaised(x) /\ SameFloat(f_scale', x)]_vars

\* C10: the mask an iteration's rejection produces is made of exactly the
\* valid entries whose current error is below the policy's threshold over all
\* valid entries, whatever the previous mask was: an entry rejected before is
\* an inlier again as soon as its error is below the threshold.
RejectionNotCumulative ==
  [][(IterationDone /\ outliers # None) =>
       \E thr \in apply_threshold(outliers, [e \in valid(self) |-> error[e]]) :
         /\ ~IsRaised(thr)
         /\ self'.inlier_mask = Mask({e \in valid(self) : LessThan(error[e], thr)})]_vars

\* C10 witness: the second or a later iteration took back in an entry that the
\* mask of the iteration before had rejected, and rejected another entry
RejectionNotCumulativeWitness ==
  /\ pc \in {"loop", "returned"}
  /\ outliers # None
  /\ solves >= 2
  /\ self.inlier_mask.mask # valid(self)
  /\ readmitted # {}
  /\ readmitted \subseteq self.inlier_mask.mask

=============================================================================
